---- MODULE Spec2Model ----
(***************************************************************************)
(* State-machine model of imputecalls.py: segmentation of a vehicle's      *)
(* position stream into runs (filter_positions, mask), imputation of stop  *)
(* calls (generate_calls), per-vehicle persistence (process_vehicle) and   *)
(* the process-pool dispatch (main).                                       *)
(*                                                                         *)
(* Nullable columns are modelled as tuples: None is <<>>, the value n is   *)
(* <<n>>.  A null trip id is the string "NULL".                            *)
(***************************************************************************)
EXTENDS Integers, Sequences, FiniteSets, TLC

VARIABLES
    pc,         \* position in the code of the operation under study
    rows,       \* the result set of VEHICLE_QUERY, in the order delivered
    cursor,     \* rows the cursor has not yet returned from fetchone()
    date,       \* the target service date (the string given to main)
    runs,       \* filter_positions: the list of runs
    prev,       \* filter_positions: <<>> while prev is object(), else <<position>>
    run,        \* generate_calls: the run
    stoptimes,  \* generate_calls: the scheduled stops of the trip
    si,         \* generate_calls: start index into stoptimes (0-based)
    ei,         \* generate_calls: end index into stoptimes (0-based)
    calls,      \* generate_calls: the list of calls
    k,          \* process_vehicle: number of the for loop's iteration (1-based)
    lenc,       \* process_vehicle: count of calls written
    sink,       \* the rows committed to the calls table, in insertion order
    commits,    \* the runs (indices into runs) whose transaction was committed, in order
    vehicles,   \* main: the working set of vehicle ids
    cpu,        \* main: os.cpu_count(), the number of pool workers
    rejected,   \* the vehicles whose batches the sink rejects
    taskqueue,  \* the pool's queue of task chunks not yet taken by a worker
    workers,    \* per pool worker, the rest of the chunk it is working on
    left,       \* the number of chunks whose result is outstanding
    processed,  \* the vehicles whose process_vehicle call returned
    failed      \* the vehicles whose process_vehicle call raised

segvars == <<rows, cursor, date, runs, prev>>
gcvars == <<run, stoptimes, si, ei, calls>>
pvvars == <<k, lenc, commits>>
mainvars == <<vehicles, cpu, rejected, taskqueue, workers, left, processed, failed>>
vars == <<pc, segvars, gcvars, pvvars, sink, mainvars>>

----------------------------------------------------------------------------
(* Bounds of the model *)

MaxStream == 3
MaxSeq == 1
MaxRun == 4
MaxStops == 3
MaxDist == 2
MaxTime == 1
MaxVehRows == 6
MaxVehicles == 5
MaxCpu == 2

(* Program constants *)

MissingSeq == -2
PrevSeqDefault == -1
EPOCH == 0
\* len(run) <= 2: runs this short are skipped (line 235)
ShortRun == 2
\* the shortest run process_vehicle hands to generate_calls
MinRun == ShortRun + 1
\* len(run) > 3: only longer runs are extrapolated (line 195)
ExtrapolateOver == 3
\* obs_distances[-3:], obs_distances[:3] (lines 198, 207)
FitWindow == 3
ChunkFactor == 4
MicrosPerSecond == 1000000

----------------------------------------------------------------------------
(* Values *)

None == <<>>
Some(n) == <<n>>
NullTrip == "NULL"
TripIds == {"A", "B"}
ServiceDates == {"d0", "d1"}
TargetDate == "d0"

\* datetime.date.isoformat(): the text of a date object
IsoFormat(d) == [iso |-> d]

Seqs == {None} \cup {Some(n) : n \in 0..MaxSeq}

\* Rows handed to filter_positions.  filter_positions reads trip_id, seq and
\* service_date only; timestamp and distance are fixed here.
SegPositions ==
    [trip_id : TripIds \cup {NullTrip}, seq : Seqs, service_date : ServiceDates,
     timestamp : {0}, distance : {0}]

Last(s) == s[Len(s)]

RECURSIVE Flatten(_)
Flatten(ss) == IF ss = <<>> THEN <<>> ELSE Head(ss) \o Flatten(Tail(ss))

\* the generate_calls variables while no call of generate_calls is modelled
GcIdle ==
    /\ run = <<>>
    /\ stoptimes = <<>>
    /\ si = 0
    /\ ei = 0
    /\ calls = <<>>

\* the process_vehicle variables while no call of process_vehicle is modelled
PvIdle ==
    /\ k = 0
    /\ lenc = 0
    /\ sink = <<>>
    /\ commits = <<>>

\* the main variables while no call of main is modelled
MainIdle ==
    /\ vehicles = <<>>
    /\ cpu = 0
    /\ rejected = {}
    /\ taskqueue = <<>>
    /\ workers = <<>>
    /\ left = 0
    /\ processed = {}
    /\ failed = {}

\* the filter_positions variables while no call of filter_positions is modelled
SegIdle ==
    /\ rows = <<>>
    /\ cursor = <<>>
    /\ date = IsoFormat(TargetDate)
    /\ runs = <<>>
    /\ prev = <<>>

----------------------------------------------------------------------------
(* filter_positions, lines 127-141: the segmentation loop *)

\* Python truthiness of an int-or-None
Truthy(v) == v # None /\ v[1] # 0

\* (position.seq or -2)
SeqOrMissing(position) ==
    IF Truthy(position.seq) THEN position.seq[1] ELSE MissingSeq

\* getattr(prev, 'trip_id', None)
PrevTripId(pv) == IF pv = <<>> THEN NullTrip ELSE pv[1].trip_id

\* the condition of line 133 alone: only a change of trip starts a run
NewRunNoRegression(position, pv) ==
    IF position.trip_id # PrevTripId(pv) THEN "new" ELSE "same"

\* The condition of lines 133-134: "new", "same", or "TypeError" when an int
\* is compared with a None sequence number of prev.
StartsNewRun(position, pv) ==
    IF position.trip_id # PrevTripId(pv) THEN "new"
    ELSE IF pv = <<>>
         THEN (IF SeqOrMissing(position) < PrevSeqDefault THEN "new" ELSE "same")
         ELSE IF pv[1].seq = None THEN "TypeError"
              ELSE IF SeqOrMissing(position) < pv[1].seq[1] THEN "new" ELSE "same"

\* One iteration of the while loop that completes (lines 131-141)
FetchOne ==
    /\ pc = "loop"
    /\ cursor # <<>>
    /\ LET position == Head(cursor)
           d == StartsNewRun(position, prev)
           rs == IF d = "new" THEN Append(runs, <<>>) ELSE runs
       IN /\ d # "TypeError"
          /\ rs # <<>>
          /\ runs' = [rs EXCEPT ![Len(rs)] = Append(@, position)]
          /\ prev' = <<position>>
          /\ cursor' = Tail(cursor)
    /\ UNCHANGED <<pc, rows, date, gcvars, pvvars, sink, mainvars>>

\* One iteration of the while loop that raises: the comparison of line 134
\* (TypeError) or runs[-1] on an empty list at line 139 (IndexError)
FetchRaise ==
    /\ pc = "loop"
    /\ cursor # <<>>
    /\ LET position == Head(cursor)
           d == StartsNewRun(position, prev)
       IN \/ /\ d = "TypeError"
             /\ pc' = "TypeError"
          \/ /\ d = "same"
             /\ runs = <<>>
             /\ pc' = "IndexError"
    /\ UNCHANGED <<segvars, gcvars, pvvars, sink, mainvars>>

----------------------------------------------------------------------------
(* mask, lines 108-111, and the comprehension of lines 145-147 *)

\* the key of line 145: lambda x, y: x.seq >= y.seq
SeqKey(x, y) == x.seq[1] >= y.seq[1]
SeqKeyRaises(x, y) == x.seq = None \/ y.seq = None

\* itertools.compress(data, selectors)
RECURSIVE Compress(_, _)
Compress(data, selectors) ==
    IF data = <<>> \/ selectors = <<>> THEN <<>>
    ELSE (IF Head(selectors) THEN <<Head(data)>> ELSE <<>>)
         \o Compress(Tail(data), Tail(selectors))

\* line 109 with the key of line 145: key(x, y) for x, y in
\* zip(positions[1:], positions)
Filt(positions) ==
    [i \in 1..(Len(positions) - 1) |-> SeqKey(positions[i + 1], positions[i])]

\* mask(positions, key), lines 108-111: the first position, and every later
\* position for which key(position, its predecessor in positions) holds
Mask(positions) == Compress(positions, <<TRUE>> \o Filt(positions))

MaskRaises(positions) ==
    \E i \in 2..Len(positions) : SeqKeyRaises(positions[i], positions[i - 1])

\* the comprehension without its filter
KeepAnyRun(r, d) == TRUE

\* the filter of line 146
KeepRun(r, d) == IsoFormat(r[1].service_date) = d

RECURSIVE MaskRuns(_, _)
MaskRuns(rs, d) ==
    IF rs = <<>> THEN <<>>
    ELSE (IF KeepRun(Head(rs), d) THEN <<Mask(Head(rs))>> ELSE <<>>)
         \o MaskRuns(Tail(rs), d)

FilterRaises(rs, d) ==
    \E i \in 1..Len(rs) : KeepRun(rs[i], d) /\ MaskRaises(rs[i])

\* Lines 143-149, once fetchone() returned None
FilterRuns ==
    /\ pc = "loop"
    /\ cursor = <<>>
    /\ IF FilterRaises(runs, date)
       THEN pc' = "TypeError" /\ UNCHANGED runs
       ELSE pc' = "done" /\ runs' = MaskRuns(runs, date)
    /\ UNCHANGED <<rows, cursor, date, prev, gcvars, pvvars, sink, mainvars>>

----------------------------------------------------------------------------
(* filter_positions applied to every stream of at most MaxStream rows *)

Streams(S, n) == UNION {[1..m -> S] : m \in 0..n}

SegInit ==
    /\ pc = "loop"
    /\ rows \in Streams(SegPositions, MaxStream)
    /\ cursor = rows
    /\ date = IsoFormat(TargetDate)
    /\ runs = <<>>
    /\ prev = <<>>
    /\ GcIdle
    /\ PvIdle
    /\ MainIdle

SegNext == FetchOne \/ FetchRaise \/ FilterRuns

SegSpec == SegInit /\ [][SegNext]_vars

----------------------------------------------------------------------------
(* Properties of filter_positions *)

Raised == {"TypeError", "IndexError"}

\* the rows consumed so far, while the loop runs
Fetched == Flatten(runs)

\* a sequence number as the specification compares it: missing is -2
SeqOrMinusTwo(v) == IF v = None THEN MissingSeq ELSE v[1]

NonDecreasing(r) ==
    \A i \in 1..(Len(r) - 1) :
        /\ r[i].seq # None
        /\ r[i + 1].seq # None
        /\ r[i + 1].seq[1] >= r[i].seq[1]

\* C1: a position starts a new run if and only if its trip id differs from the
\* previous position's or its sequence number (missing = -2, zero a number like
\* any other) is lower than the previous position's.
C1_BoundaryIffTripChangeOrRegression ==
    (pc = "loop" /\ Len(Fetched) >= 2) =>
        LET n == Len(Fetched)
            p == Fetched[n]
            q == Fetched[n - 1]
        IN (Len(Last(runs)) = 1) <=>
               (p.trip_id # q.trip_id \/ SeqOrMinusTwo(p.seq) < SeqOrMinusTwo(q.seq))

\* C2: every run returned by filter_positions has non-decreasing sequence
\* numbers between adjacent kept positions.
C2_ReturnedRunsNonDecreasing ==
    pc = "done" => \A r \in 1..Len(runs) : NonDecreasing(runs[r])

\* C2 witness: the stream held a sequence regression within one trip, and a run
\* of two or more positions was returned.
C2_Witness ==
    /\ pc = "done"
    /\ \E i \in 1..(Len(rows) - 1) :
           /\ rows[i].trip_id = rows[i + 1].trip_id
           /\ SeqOrMinusTwo(rows[i + 1].seq) < SeqOrMinusTwo(rows[i].seq)
    /\ \E r \in 1..Len(runs) : Len(runs[r]) >= 2

\* C6 as claimed: every position of every returned run has the target service
\* date.
C6_AllPositionsOnTargetDate ==
    pc = "done" =>
        \A r \in 1..Len(runs) : \A i \in 1..Len(runs[r]) :
            IsoFormat(runs[r][i].service_date) = date

\* C6 amended: the first position of every returned run has the target service
\* date.
C6_FirstPositionOnTargetDate ==
    pc = "done" =>
        \A r \in 1..Len(runs) : IsoFormat(runs[r][1].service_date) = date

\* C6 witness: a run was returned that holds a position of another service date,
\* and a run of the stream was dropped by the date filter.
C6_Witness ==
    /\ pc = "done"
    /\ \E r \in 1..Len(runs) : \E i \in 2..Len(runs[r]) :
           IsoFormat(runs[r][i].service_date) # date
    /\ \E i \in 1..Len(rows) :
           \A r \in 1..Len(runs) : \A j \in 1..Len(runs[r]) : runs[r][j] # rows[i]

\* C10: the segmentation loop never fails, no run is empty, the first position
\* opens a run, and the runs concatenated are the rows fetched, in order.
C10_EveryPositionInExactlyOneRun ==
    /\ pc \notin Raised
    /\ pc = "loop" =>
           /\ \A r \in 1..Len(runs) : runs[r] # <<>>
           /\ Fetched \o cursor = rows
           /\ (prev # <<>> => runs # <<>>)

----------------------------------------------------------------------------
(* generate_calls, lines 162-219, and its helpers *)

Min(S) == CHOOSE x \in S : \A y \in S : x <= y
Max(S) == CHOOSE x \in S : \A y \in S : x >= y

RECURSIVE Sum(_)
Sum(s) == IF s = <<>> THEN 0 ELSE Head(s) + Sum(Tail(s))

FirstN(s, n) == SubSeq(s, 1, Min({n, Len(s)}))
LastN(s, n) == SubSeq(s, Max({1, Len(s) - n + 1}), Len(s))

\* to_unix, lines 100-101
ToUnix(dt) == dt - EPOCH

\* Seconds are rationals <<numerator, denominator>> with denominator > 0.

\* np.interp(x, xp, fp), for xp non-decreasing: clamped outside [xp[0], xp[-1]],
\* linear between the last sample at or before x and the next one
Interp(x, xp, fp) ==
    LET n == Len(xp)
    IN IF x < xp[1] THEN <<fp[1], 1>>
       ELSE IF x >= xp[n] THEN <<fp[n], 1>>
       ELSE LET j == CHOOSE i \in 1..(n - 1) : xp[i] <= x /\ x < xp[i + 1]
            IN <<fp[j] * (xp[j + 1] - xp[j]) + (fp[j + 1] - fp[j]) * (x - xp[j]),
                 xp[j + 1] - xp[j]>>

\* datetime.utcfromtimestamp(seconds) made UTC-aware and moved to EST: the
\* instant, rounded half-even to a whole microsecond
UtcFromTimestamp(q) ==
    LET whole == q[1] \div q[2]
        frac == (q[1] % q[2]) * MicrosPerSecond
        f == frac \div q[2]
        rem == frac % q[2]
        us == IF 2 * rem > q[2] THEN f + 1
              ELSE IF 2 * rem = q[2] THEN f + (f % 2)
              ELSE f
    IN whole * MicrosPerSecond + us

\* call, lines 152-159
Call(stoptime, seconds, method) ==
    [route_id |-> stoptime.route_id,
     direction_id |-> stoptime.direction_id,
     stop_id |-> stoptime.stop_id,
     timestamp |-> UtcFromTimestamp(seconds),
     method |-> IF method = "" THEN "I" ELSE method]

\* What numpy.linalg.lstsq does with a design matrix that holds NaN depends on
\* the LAPACK build: it raises LinAlgError (the SVD does not converge), or it
\* returns NaN coefficients.
LstsqOnNaN == {"LinAlgError", "nan"}

\* np.polyfit(x, y, 1).  The design matrix's columns are scaled by their norms
\* before the least-squares solve: a window of identical zero distances gives
\* a zero norm and a NaN matrix (nan); a window of identical non-zero
\* distances is rank-deficient and gets the minimum-norm solution (with a
\* RankWarning, ignored at line 29).  The line is (an * x + bn) / d.
Polyfit(xs, ys) ==
    LET n == Len(xs)
        Sx == Sum(xs)
        Sy == Sum(ys)
        Sxx == Sum([i \in 1..n |-> xs[i] * xs[i]])
        Sxy == Sum([i \in 1..n |-> xs[i] * ys[i]])
        den == n * Sxx - Sx * Sx
        num == n * Sxy - Sx * Sy
    IN IF den # 0
       THEN [nan |-> FALSE, an |-> n * num, bn |-> Sy * den - num * Sx, d |-> n * den]
       ELSE IF xs[1] = 0
            THEN [nan |-> TRUE, an |-> 0, bn |-> 0, d |-> 1]
            ELSE [nan |-> FALSE, an |-> Sy, bn |-> Sy * xs[1], d |-> 2 * xs[1] * n]

\* np.poly1d(coefficients)(x), x a number
Poly1d(fit, x) == <<fit.an * x + fit.bn, fit.d>>

\* stoptimes.index([x for x in stoptimes if x.seq == seq][0]), 0-based, or
\* otherwise when no stop has that sequence number (lines 178-187)
StopIndex(st, sq, otherwise) ==
    LET m == {i \in 1..Len(st) : st[i].seq = sq}
    IN IF m = {} THEN otherwise ELSE Min(m) - 1

StartIndex(r, st) == StopIndex(st, r[1].seq, 0)
EndIndex(r, st) == StopIndex(st, Last(r).seq, Len(st))

\* Lines 171-190: [raised, calls]; np.interp raises TypeError on a None among
\* stop_positions[si:ei]
Interpolate(r, st) ==
    LET s0 == StartIndex(r, st)
        e0 == EndIndex(r, st)
        xp == [i \in 1..Len(r) |-> r[i].distance]
        fp == [i \in 1..Len(r) |-> ToUnix(r[i].timestamp)]
        n == IF e0 > s0 THEN e0 - s0 ELSE 0
    IN IF \E i \in 1..n : st[s0 + i].dist_along_shape = None
       THEN [raised |-> "TypeError", calls |-> <<>>]
       ELSE [raised |-> "",
             calls |-> [i \in 1..n |->
                 Call(st[s0 + i], Interp(st[s0 + i].dist_along_shape[1], xp, fp), "")]]

\* Lines 197-203: np.polyfit is called before the try block; the TypeError of
\* evaluating the line at a None distance, and the ValueError of
\* utcfromtimestamp(NaN), are caught
ExtrapolateForward(r, st, e0, cs, lstsq) ==
    IF e0 < Len(st)
    THEN LET fit == Polyfit(LastN([i \in 1..Len(r) |-> r[i].distance], FitWindow),
                            LastN([i \in 1..Len(r) |-> ToUnix(r[i].timestamp)], FitWindow))
         IN IF fit.nan /\ lstsq = "LinAlgError"
            THEN [raised |-> "LinAlgError", calls |-> cs]
            ELSE IF fit.nan \/ st[e0 + 1].dist_along_shape = None
            THEN [raised |-> "", calls |-> cs]
            ELSE [raised |-> "",
                  calls |-> Append(cs, Call(st[e0 + 1],
                                Poly1d(fit, st[e0 + 1].dist_along_shape[1]), "E"))]
    ELSE [raised |-> "", calls |-> cs]

\* the stop the backward extrapolation is evaluated at and recorded for:
\* stop_positions[si], stoptimes[si] (lines 209-210)
BackwardStop(st, s0) == st[s0 + 1]

\* Lines 206-217
ExtrapolateBackward(r, st, s0, cs, lstsq) ==
    IF s0 > 0
    THEN LET fit == Polyfit(FirstN([i \in 1..Len(r) |-> r[i].distance], FitWindow),
                            FirstN([i \in 1..Len(r) |-> ToUnix(r[i].timestamp)], FitWindow))
             stop == BackwardStop(st, s0)
         IN IF fit.nan /\ lstsq = "LinAlgError"
            THEN [raised |-> "LinAlgError", calls |-> cs]
            ELSE IF fit.nan \/ stop.dist_along_shape = None
            THEN [raised |-> "", calls |-> cs]
            ELSE [raised |-> "",
                  calls |-> <<Call(stop, Poly1d(fit, stop.dist_along_shape[1]), "S")>> \o cs]
    ELSE [raised |-> "", calls |-> cs]

\* generate_calls as a function: [raised, calls]
GenerateCalls(r, st, lstsq) ==
    LET a == Interpolate(r, st)
        f == ExtrapolateForward(r, st, EndIndex(r, st), a.calls, lstsq)
        b == ExtrapolateBackward(r, st, StartIndex(r, st), f.calls, lstsq)
    IN IF a.raised # "" \/ a.calls = <<>> \/ Len(r) <= ExtrapolateOver THEN a
       ELSE IF f.raised # "" THEN f
       ELSE b

\* Lines 171-193
GcInterpolate ==
    /\ pc = "gc_interp"
    /\ LET a == Interpolate(run, stoptimes)
       IN /\ si' = StartIndex(run, stoptimes)
          /\ ei' = EndIndex(run, stoptimes)
          /\ calls' = a.calls
          /\ pc' = IF a.raised # "" THEN a.raised
                   ELSE IF a.calls = <<>> THEN "gc_return"
                   ELSE IF Len(run) > ExtrapolateOver THEN "gc_forward"
                   ELSE "gc_return"
    /\ UNCHANGED <<run, stoptimes, segvars, pvvars, sink, mainvars>>

\* Lines 196-203
GcForward ==
    /\ pc = "gc_forward"
    /\ \E lstsq \in LstsqOnNaN :
       LET f == ExtrapolateForward(run, stoptimes, ei, calls, lstsq)
       IN /\ calls' = f.calls
          /\ pc' = IF f.raised # "" THEN f.raised ELSE "gc_backward"
    /\ UNCHANGED <<run, stoptimes, si, ei, segvars, pvvars, sink, mainvars>>

\* Lines 205-219
GcBackward ==
    /\ pc = "gc_backward"
    /\ \E lstsq \in LstsqOnNaN :
       LET b == ExtrapolateBackward(run, stoptimes, si, calls, lstsq)
       IN /\ calls' = b.calls
          /\ pc' = IF b.raised # "" THEN b.raised ELSE "gc_return"
    /\ UNCHANGED <<run, stoptimes, si, ei, segvars, pvvars, sink, mainvars>>

----------------------------------------------------------------------------
(* generate_calls applied to runs of MinRun..MaxRun positions *)

StopId(i) == 100 + i

\* the rows of SELECT_TRIP_INDEX for a trip of n stops: sequence numbers 1..n,
\* stop i at distance i along the shape, or NULL for the stop nullAt (the
\* LEFT JOIN of line 85)
Schedule(n, nullAt) ==
    [i \in 1..n |->
        [stop_id |-> StopId(i), seq |-> Some(i), route_id |-> "R", direction_id |-> 0,
         dist_along_shape |-> IF i = nullAt THEN None ELSE Some(i)]]

RECURSIVE NonDecreasingInts(_, _, _)
NonDecreasingInts(n, lo, hi) ==
    IF n = 0 THEN {<<>>}
    ELSE UNION {{<<v>> \o t : t \in NonDecreasingInts(n - 1, v, hi)} : v \in lo..hi}

\* Runs of n positions as filter_positions returns them: one trip,
\* non-decreasing sequence numbers; with non-decreasing distances (the domain
\* of Interp)
GcRuns(n) ==
    {[i \in 1..n |->
        [trip_id |-> "A", seq |-> Some(sq[i]), service_date |-> TargetDate,
         timestamp |-> ts[i], distance |-> ds[i]]] :
     sq \in NonDecreasingInts(n, 1, MaxStops),
     ds \in NonDecreasingInts(n, 0, MaxDist),
     ts \in [1..n -> 0..MaxTime]}

GcInit ==
    /\ pc = "gc_interp"
    /\ \E n \in MinRun..MaxRun : run \in GcRuns(n)
    /\ \E n \in 0..MaxStops : \E nullAt \in 0..n : stoptimes = Schedule(n, nullAt)
    /\ si = 0
    /\ ei = 0
    /\ calls = <<>>
    /\ SegIdle
    /\ PvIdle
    /\ MainIdle

GcNext == GcInterpolate \/ GcForward \/ GcBackward

GcSpec == GcInit /\ [][GcNext]_vars

----------------------------------------------------------------------------
(* Properties of generate_calls *)

\* the scheduled stop before the interpolated range: the stop at index si-1
StopBeforeRange(st, s0) == st[s0]

\* the 0-based index in stoptimes of the stop a call is for
StopOrder(c) == Min({i \in 1..Len(stoptimes) : stoptimes[i].stop_id = c.stop_id}) - 1

\* C3: for a run of more than 3 positions with interpolated calls and si > 0,
\* the prepended 'S' call is for the stop at index si-1, so that no scheduled
\* stop receives two calls.
C3_BackwardCallIsForEarlierStop ==
    (/\ pc = "gc_return"
     /\ Len(run) > ExtrapolateOver
     /\ si > 0
     /\ calls # <<>>
     /\ calls[1].method = "S") =>
        /\ calls[1].stop_id = StopBeforeRange(stoptimes, si).stop_id
        /\ \A i, j \in 1..Len(calls) : i # j => calls[i].stop_id # calls[j].stop_id

\* C7: in the list generate_calls returns, a call for a later scheduled stop
\* never has an earlier timestamp than a call for an earlier stop.
C7_TimestampsFollowStopOrder ==
    pc = "gc_return" =>
        \A i, j \in 1..Len(calls) :
            StopOrder(calls[i]) < StopOrder(calls[j]) =>
                calls[i].timestamp <= calls[j].timestamp

\* whether the forward extrapolation is attempted
ForwardFitAttempted ==
    Len(run) > ExtrapolateOver /\ Interpolate(run, stoptimes).calls # <<>> /\ ei < Len(stoptimes)

\* whether fitting the forward line, or evaluating it, fails
ForwardFitFails ==
    /\ ForwardFitAttempted
    /\ \/ Polyfit(LastN([i \in 1..Len(run) |-> run[i].distance], FitWindow),
                  LastN([i \in 1..Len(run) |-> ToUnix(run[i].timestamp)], FitWindow)).nan
       \/ stoptimes[ei + 1].dist_along_shape = None

\* C8: a failing fit or evaluation on one side never makes generate_calls
\* raise; the interpolated calls are returned, without that side's boundary
\* call.
C8_FitFailureOnlyOmitsBoundaryCall ==
    /\ pc # "LinAlgError"
    /\ (pc = "gc_return" /\ ForwardFitFails) =>
           /\ \A i \in 1..Len(calls) : calls[i].method # "E"
           /\ SelectSeq(calls, LAMBDA c : c.method = "I")
                  = Interpolate(run, stoptimes).calls

----------------------------------------------------------------------------
(* process_vehicle, lines 222-252 *)

\* filter_positions as a function of the result set: [raised, runs]
RECURSIVE Segment(_, _, _)
Segment(rs, acc, pv) ==
    IF rs = <<>> THEN [raised |-> "", runs |-> acc]
    ELSE LET position == Head(rs)
             d == StartsNewRun(position, pv)
             a == IF d = "new" THEN Append(acc, <<>>) ELSE acc
         IN IF d = "TypeError" THEN [raised |-> "TypeError", runs |-> acc]
            ELSE IF a = <<>> THEN [raised |-> "IndexError", runs |-> acc]
            ELSE Segment(Tail(rs), [a EXCEPT ![Len(a)] = Append(@, position)],
                         <<position>>)

FilterPositions(rs, d) ==
    LET sgm == Segment(rs, <<>>, <<>>)
    IN IF sgm.raised # "" THEN sgm
       ELSE IF FilterRaises(sgm.runs, d) THEN [raised |-> "TypeError", runs |-> <<>>]
       ELSE [raised |-> "", runs |-> MaskRuns(sgm.runs, d)]

\* common, lines 104-105: the most frequent element, the first encountered
\* among equally frequent ones
Common(lis) ==
    LET count(x) == Cardinality({i \in 1..Len(lis) : lis[i] = x})
    IN lis[Min({i \in 1..Len(lis) :
                   \A j \in 1..Len(lis) : count(lis[i]) >= count(lis[j])})]

TripOf(r) == Common([i \in 1..Len(r) |-> r[i].trip_id])

\* the rows of SELECT_TRIP_INDEX for each trip of the schedule: trip "A" has
\* MaxStops stops, trip "B" the same stops with no shape distance for the
\* first, any other trip id has no rows
TripSchedule(trip_id) ==
    IF trip_id = "A" THEN Schedule(MaxStops, 0)
    ELSE IF trip_id = "B" THEN Schedule(MaxStops, 1)
    ELSE <<>>

\* the parameters of one INSERT (lines 90-92 and 247)
InsertRow(vehicle_id, trip_id, c) ==
    [vehicle_id |-> vehicle_id, trip_id |-> trip_id, route_id |-> c.route_id,
     direction_id |-> c.direction_id, stop_id |-> c.stop_id,
     call_time |-> c.timestamp, source |-> c.method]

InsertRows(vehicle_id, trip_id, cs) ==
    [i \in 1..Len(cs) |-> InsertRow(vehicle_id, trip_id, cs[i])]

\* conn.commit(), line 250: the rows of the open transaction become durable
Commit(committed, pending) == committed \o pending

\* a connection that commits the open transaction however the block is left
ConnExitCommitsAlways(committed, pending, raised) == committed \o pending

\* leaving "with psycopg2.connect(...) as conn" (line 223): the open
\* transaction is rolled back when an exception leaves the block, committed
\* otherwise
ConnExit(committed, pending, raised) ==
    IF raised THEN committed ELSE committed \o pending

\* a loop over reversed(runs)
IterIndexReversed(rs, i) == Len(rs) + 1 - i

\* the run the i-th iteration of "for run in runs" handles (line 232)
IterIndex(rs, i) == i

VehicleId == "v1"

\* Lines 227-229
PvStart ==
    /\ pc = "pv_start"
    /\ LET f == FilterPositions(rows, date)
       IN IF f.raised # ""
          THEN /\ pc' = "pv_raised"
               /\ sink' = ConnExit(sink, <<>>, TRUE)
               /\ UNCHANGED <<runs, k, lenc>>
          ELSE /\ pc' = "pv_loop"
               /\ runs' = f.runs
               /\ k' = 1
               /\ lenc' = 0
               /\ UNCHANGED sink
    /\ UNCHANGED <<rows, cursor, date, prev, gcvars, commits, mainvars>>

\* Lines 233-238: a run of at most 2 positions is skipped
PvSkip ==
    /\ pc = "pv_loop"
    /\ k <= Len(runs)
    /\ Len(runs[IterIndex(runs, k)]) <= ShortRun
    /\ k' = k + 1
    /\ UNCHANGED <<pc, segvars, gcvars, lenc, sink, commits, mainvars>>

\* Lines 240-250: schedule lookup, generate_calls, executemany, commit
PvCommit ==
    /\ pc = "pv_loop"
    /\ k <= Len(runs)
    /\ \E lstsq \in LstsqOnNaN :
       LET r == runs[IterIndex(runs, k)]
           trip_id == TripOf(r)
           g == GenerateCalls(r, TripSchedule(trip_id), lstsq)
       IN /\ Len(r) > ShortRun
          /\ g.raised = ""
          /\ sink' = Commit(sink, InsertRows(VehicleId, trip_id, g.calls))
          /\ lenc' = lenc + Len(g.calls)
          /\ commits' = Append(commits, IterIndex(runs, k))
    /\ k' = k + 1
    /\ UNCHANGED <<pc, segvars, gcvars, mainvars>>

\* Lines 240-250 when an exception leaves the loop: the schedule query fails,
\* generate_calls raises, or the sink fails after taking the first j rows of
\* the batch (j = all of them: the commit fails)
PvRaise ==
    /\ pc = "pv_loop"
    /\ k <= Len(runs)
    /\ \E lstsq \in LstsqOnNaN :
       LET r == runs[IterIndex(runs, k)]
           trip_id == TripOf(r)
           g == GenerateCalls(r, TripSchedule(trip_id), lstsq)
       IN /\ Len(r) > ShortRun
          /\ \/ sink' = ConnExit(sink, <<>>, TRUE)
             \/ /\ g.raised # ""
                /\ sink' = ConnExit(sink, <<>>, TRUE)
             \/ /\ g.raised = ""
                /\ \E j \in 0..Len(g.calls) :
                       sink' = ConnExit(sink,
                           SubSeq(InsertRows(VehicleId, trip_id, g.calls), 1, j), TRUE)
    /\ pc' = "pv_raised"
    /\ UNCHANGED <<segvars, gcvars, k, lenc, commits, mainvars>>

\* Line 252 and the normal exit of the with blocks
PvFinish ==
    /\ pc = "pv_loop"
    /\ k > Len(runs)
    /\ sink' = ConnExit(sink, <<>>, FALSE)
    /\ pc' = "pv_done"
    /\ UNCHANGED <<segvars, gcvars, k, lenc, commits, mainvars>>

----------------------------------------------------------------------------
(* process_vehicle applied to result sets in the order of VEHICLE_QUERY *)

\* The rows of one trip, in the query's order (stop sequence, then timestamp):
\* n positions sampled one second apart from t0 on, each at the stop it
\* approaches.
TripBlock(trip_id, n, sq, t0, sd) ==
    [i \in 1..n |->
        [trip_id |-> trip_id, seq |-> Some(sq[i]), service_date |-> sd,
         timestamp |-> t0 + i - 1, distance |-> sq[i]]]

TripBlocks(trip_id, n, starts) ==
    IF n = 0 THEN {<<>>}
    ELSE {TripBlock(trip_id, n, sq, t0, sd) :
             sq \in NonDecreasingInts(n, 1, MaxStops),
             t0 \in starts,
             sd \in ServiceDates}

\* ORDER BY trip_id, st.stop_sequence, timestamp_utc (line 68): the rows of
\* trip "A", sampled from any time on, then those of trip "B", sampled from
\* time 0 on
QueryResults(n, m) ==
    {a \o b : a \in TripBlocks("A", n, 0..MaxTime), b \in TripBlocks("B", m, {0})}

PvInit ==
    /\ pc = "pv_start"
    /\ \E n \in 0..MaxVehRows : \E m \in 0..(MaxVehRows - n) :
           rows \in QueryResults(n, m)
    /\ cursor = <<>>
    /\ date = IsoFormat(TargetDate)
    /\ runs = <<>>
    /\ prev = <<>>
    /\ GcIdle
    /\ PvIdle
    /\ MainIdle

PvNext == PvStart \/ PvSkip \/ PvCommit \/ PvRaise \/ PvFinish

PvSpec == PvInit /\ [][PvNext]_vars

----------------------------------------------------------------------------
(* Properties of process_vehicle *)

\* the rows process_vehicle writes for the runs handled by the first n
\* iterations of the loop, when none of them raises (a fit on a NaN matrix
\* that does not raise adds no call)
RECURSIVE RowsOfRuns(_, _)
RowsOfRuns(rs, n) ==
    IF n = 0 THEN <<>>
    ELSE LET r == rs[n]
         IN RowsOfRuns(rs, n - 1) \o
            (IF Len(r) <= ShortRun THEN <<>>
             ELSE InsertRows(VehicleId, TripOf(r),
                             GenerateCalls(r, TripSchedule(TripOf(r)), "nan").calls))

\* C4: the calls of each processed run are committed before the next run is
\* handled, and when the k-th run fails the sink holds exactly the calls of the
\* runs before it and none of the k-th or later runs.
C4_SinkHoldsExactlyEarlierRuns ==
    pc \in {"pv_loop", "pv_raised", "pv_done"} => sink = RowsOfRuns(runs, k - 1)

\* C4 witness: the second or a later run failed after an earlier run's calls
\* were committed, and the failing run has calls of its own.
C4_Witness ==
    /\ pc = "pv_raised"
    /\ k >= 2
    /\ sink # <<>>
    /\ GenerateCalls(runs[k], TripSchedule(TripOf(runs[k])), "nan").calls # <<>>

\* C9 as claimed: runs are committed in chronological order: a run committed
\* earlier does not start later than a run committed after it.
C9_CommitOrderIsChronological ==
    \A i, j \in 1..Len(commits) :
        i < j => runs[commits[i]][1].timestamp <= runs[commits[j]][1].timestamp

\* C9 amended: runs are committed in the order filter_positions emitted them
\* (the order of the position query: trip id, stop sequence, timestamp).
C9_CommitOrderIsEmissionOrder ==
    /\ \A i, j \in 1..Len(commits) : i < j => commits[i] < commits[j]
    /\ pc = "pv_done" =>
           \A r \in 1..Len(runs) :
               Len(runs[r]) > ShortRun => \E i \in 1..Len(commits) : commits[i] = r

\* C9 witness: two runs of one vehicle were committed, the first of them
\* starting later in time than the second.
C9_Witness ==
    /\ pc = "pv_done"
    /\ Len(commits) >= 2
    /\ sink # <<>>
    /\ runs[commits[1]][1].timestamp > runs[commits[2]][1].timestamp

----------------------------------------------------------------------------
(* main, lines 255-275 *)

\* process_vehicle as a function: [raised, rows], the rows it leaves committed.
\* rejects: the sink refuses the vehicle's first batch.
RECURSIVE ProcessRuns(_, _, _, _, _, _)
ProcessRuns(vehicle_id, rs, i, committed, rejects, lstsq) ==
    IF i > Len(rs) THEN [raised |-> FALSE, rows |-> ConnExit(committed, <<>>, FALSE)]
    ELSE LET r == rs[IterIndex(rs, i)]
             trip_id == TripOf(r)
             g == GenerateCalls(r, TripSchedule(trip_id), lstsq)
         IN IF Len(r) <= ShortRun
            THEN ProcessRuns(vehicle_id, rs, i + 1, committed, rejects, lstsq)
            ELSE IF g.raised # "" \/ rejects
                 THEN [raised |-> TRUE, rows |-> ConnExit(committed, <<>>, TRUE)]
                 ELSE ProcessRuns(vehicle_id, rs, i + 1,
                          Commit(committed, InsertRows(vehicle_id, trip_id, g.calls)),
                          rejects, lstsq)

ProcessVehicle(vehicle_id, rs, d, rejects, lstsq) ==
    LET f == FilterPositions(rs, d)
    IN IF f.raised # "" THEN [raised |-> TRUE, rows |-> <<>>]
       ELSE ProcessRuns(vehicle_id, f.runs, 1, <<>>, rejects, lstsq)

\* the positions of each vehicle of the working set: one run of trip "A"
VehicleRows(vehicle_id) ==
    TripBlock("A", MinRun, [i \in 1..MinRun |-> IF i = MinRun THEN 2 ELSE 1], 0, TargetDate)

\* Pool._map_async: chunksize, extra = divmod(len(iterable), len(pool) * 4);
\* if extra: chunksize += 1
ChunkSize(n, workerCount) ==
    (n \div (workerCount * ChunkFactor))
        + (IF n % (workerCount * ChunkFactor) # 0 THEN 1 ELSE 0)

\* Pool._get_tasks: consecutive slices of chunksize tasks
RECURSIVE Chunks(_, _)
Chunks(tasks, size) ==
    IF tasks = <<>> THEN <<>>
    ELSE <<FirstN(tasks, size)>> \o Chunks(SubSeq(tasks, size + 1, Len(tasks)), size)

\* Lines 258-273: the task list is built and handed to pool.starmap
MainDispatch ==
    /\ pc = "main_start"
    /\ taskqueue' = Chunks(vehicles, ChunkSize(Len(vehicles), cpu))
    /\ left' = Len(taskqueue')
    /\ workers' = [w \in 1..cpu |-> <<>>]
    /\ pc' = "main_wait"
    /\ UNCHANGED <<segvars, gcvars, pvvars, sink, vehicles, cpu, rejected, processed, failed>>

\* a pool worker takes the next chunk from the queue
WorkerTake(w) ==
    /\ pc = "main_wait"
    /\ workers[w] = <<>>
    /\ taskqueue # <<>>
    /\ workers' = [workers EXCEPT ![w] = Head(taskqueue)]
    /\ taskqueue' = Tail(taskqueue)
    /\ UNCHANGED <<pc, segvars, gcvars, pvvars, sink, vehicles, cpu, rejected, left,
                   processed, failed>>

\* a pool worker runs process_vehicle for the next vehicle of its chunk
\* (mapstar: list(starmap(func, chunk))); an exception ends the chunk
WorkerRun(w) ==
    /\ pc = "main_wait"
    /\ workers[w] # <<>>
    /\ \E lstsq \in LstsqOnNaN :
       LET v == Head(workers[w])
           res == ProcessVehicle(v, VehicleRows(v), date, v \in rejected, lstsq)
           rest == IF res.raised THEN <<>> ELSE Tail(workers[w])
       IN /\ sink' = sink \o res.rows
          /\ processed' = IF res.raised THEN processed ELSE processed \cup {v}
          /\ failed' = IF res.raised THEN failed \cup {v} ELSE failed
          /\ workers' = [workers EXCEPT ![w] = rest]
          /\ left' = IF rest = <<>> THEN left - 1 ELSE left
    /\ UNCHANGED <<pc, segvars, gcvars, pvvars, vehicles, cpu, rejected, taskqueue>>

\* starmap returns, or re-raises the first exception, once every chunk's
\* result is in; line 275 is reached only when it returns
MainJoin ==
    /\ pc = "main_wait"
    /\ left = 0
    /\ pc' = IF failed = {} THEN "main_success" ELSE "main_raised"
    /\ UNCHANGED <<segvars, gcvars, pvvars, sink, mainvars>>

MainInit ==
    /\ pc = "main_start"
    /\ \E n \in 1..MaxVehicles : vehicles = [i \in 1..n |-> i]
    /\ cpu \in 1..MaxCpu
    /\ rejected \in SUBSET {vehicles[i] : i \in 1..Len(vehicles)}
    /\ taskqueue = <<>>
    /\ workers = <<>>
    /\ left = 0
    /\ processed = {}
    /\ failed = {}
    /\ SegIdle
    /\ GcIdle
    /\ PvIdle

MainNext ==
    \/ MainDispatch
    \/ \E w \in 1..cpu : WorkerTake(w)
    \/ \E w \in 1..cpu : WorkerRun(w)
    \/ MainJoin

MainSpec == MainInit /\ [][MainNext]_vars

\* C5: when a vehicle's worker raises, every other vehicle of the working set
\* is still processed by process_vehicle to completion, whatever the number of
\* vehicles, the pool size and the grouping of tasks.
C5_OtherVehiclesStillProcessed ==
    pc \in {"main_success", "main_raised"} =>
        \A i \in 1..Len(vehicles) :
            vehicles[i] \notin failed =>
                /\ vehicles[i] \in processed
                /\ \E j \in 1..Len(sink) : sink[j].vehicle_id = vehicles[i]

====
